---- MODULE Spec2Model ----
(* State-machine model of streamlit_app.py: one run of the Streamlit script *)
(* that opens an uploaded score PDF, finds the left-margin label lines,     *)
(* crops the band below every requested label and packs the crops onto new  *)
(* output pages.  Vertical coordinates are whole points.                    *)
EXTENDS Integers, Sequences, FiniteSets, TLC

VARIABLES pc, outcome, doc, doc_open, labels_input, label_list, norm_labels,
          page_index, all_labels, target_labels, output_doc, out_pages,
          output_page, y_cursor, prev_page, idx, clips, saved

vars == << pc, outcome, doc, doc_open, labels_input, label_list, norm_labels,
           page_index, all_labels, target_labels, output_doc, out_pages,
           output_page, y_cursor, prev_page, idx, clips, saved >>

(* ---------------------------------------------------------------------- *)
(* Bounds of the model                                                      *)
(* ---------------------------------------------------------------------- *)
MaxLines == 3

(* ---------------------------------------------------------------------- *)
(* Program constants                                                        *)
(* ---------------------------------------------------------------------- *)
left_margin_threshold == 50
top_margin == 10
bottom_margin == 10
vertical_gap == 5
zoom_factor == 2
TopPad == 20
FallbackHeight == 120

None == 0

(* ---------------------------------------------------------------------- *)
(* Text: a string is a sequence of one-character strings                    *)
(* ---------------------------------------------------------------------- *)
UpperLetters == << "A","B","C","D","E","F","G","H","I","J","K","L","M",
                   "N","O","P","Q","R","S","T","U","V","W","X","Y","Z" >>
LowerLetters == << "a","b","c","d","e","f","g","h","i","j","k","l","m",
                   "n","o","p","q","r","s","t","u","v","w","x","y","z" >>
Digits == { "0","1","2","3","4","5","6","7","8","9" }
Whitespace == { " ", "\t", "\n" }

Range(s) == { s[i] : i \in 1..Len(s) }

Letters == Range(UpperLetters) \cup Range(LowerLetters)

IsLetter(c) == c \in Letters

IsAlnum(c) == IsLetter(c) \/ c \in Digits

(* the lower-case letter of every upper-case letter *)
LowerOf ==
  [ c \in Range(UpperLetters) |->
      LowerLetters[CHOOSE i \in 1..26 : UpperLetters[i] = c] ]

LowerChar(c) == IF c \in DOMAIN LowerOf THEN LowerOf[c] ELSE c

(* str.lower() *)
Lower(s) == [ i \in 1..Len(s) |-> LowerChar(s[i]) ]

(* re.sub(r"[^A-Za-z0-9]", "", s) *)
StripNonAlnum(s) == SelectSeq(s, IsAlnum)

(* re.sub(r"[^A-Za-z0-9]", "", s).lower() *)
Normalize(s) == Lower(StripNonAlnum(s))

(* str.strip() *)
RECURSIVE LStrip(_)
LStrip(s) ==
  IF s # << >> /\ Head(s) \in Whitespace THEN LStrip(Tail(s)) ELSE s

RECURSIVE RStrip(_)
RStrip(s) ==
  IF s # << >> /\ s[Len(s)] \in Whitespace
  THEN RStrip(SubSeq(s, 1, Len(s) - 1)) ELSE s

Strip(s) == RStrip(LStrip(s))

(* str.split(","): the pieces between commas, empty pieces included *)
RECURSIVE SplitFrom(_, _)
SplitFrom(s, cur) ==
  IF s = << >> THEN << cur >>
  ELSE IF Head(s) = "," THEN << cur >> \o SplitFrom(Tail(s), << >>)
  ELSE SplitFrom(Tail(s), Append(cur, Head(s)))

Split(s) == SplitFrom(s, << >>)

(* re.search("[A-Za-z]", text) *)
HasLetter(s) == \E i \in 1..Len(s) : IsLetter(s[i])

(* kw in text *)
Contains(s, kw) ==
  \E i \in 0..(Len(s) - Len(kw)) : SubSeq(s, i + 1, i + Len(kw)) = kw

Keywords ==
  { << "W","o","r","d","s"," ","a","n","d"," ","M","u","s","i","c"," ","b","y" >>,
    << "A","r","r","." >>,
    << "F","r","o","m"," " >> }

(* [lbl.strip() for lbl in labels_input.split(",") if lbl.strip()] *)
ParseLabels(inp) ==
  LET parts == Split(inp)
      stripped == [ i \in 1..Len(parts) |-> Strip(parts[i]) ]
      NonEmpty(p) == p # << >>
  IN SelectSeq(stripped, NonEmpty)

(* { re.sub(...).lower() for lbl in label_list } *)
NormLabels(ll) == { Normalize(ll[i]) : i \in 1..Len(ll) }

(* ---------------------------------------------------------------------- *)
(* Inputs                                                                   *)
(* ---------------------------------------------------------------------- *)
BassI == << "B","a","s","s"," ","I" >>
BassII == << "B","a","s","s"," ","I","I" >>

LabelInputs ==
  { << >>,
    << " ", ",", " " >>,
    BassI,
    << "b","a","s","s","-","i","i",","," " >> }

(* raw line texts as the spans join to, before strip() *)
RawTexts ==
  { BassI,
    << " " >> \o BassII \o << " " >>,
    << " ", " " >>,
    << "1", "2" >>,
    << "A","r","r","." >> }

X0s == { 40, 50 }
Y0s == { -2, 20, 60, 175 }
LineHeights == { 8 }

(* the documents: the heights of their pages, in page order *)
Docs == { << 140 >>, << 200 >>, << 140, 200 >>, << 200, 140 >> }

(* ---------------------------------------------------------------------- *)
(* Pure helpers of the pipeline                                             *)
(* ---------------------------------------------------------------------- *)
Max(a, b) == IF a >= b THEN a ELSE b

Min(a, b) == IF a <= b THEN a ELSE b

(* the tests a scanned line must pass to be appended to all_labels *)
IsCandidate(x0, text) ==
  /\ text # << >>
  /\ x0 < left_margin_threshold
  /\ HasLetter(text)
  /\ ~ \E kw \in Keywords : Contains(text, kw)

(* key=lambda t: (t[0], t[1]) *)
KeyLeq(a, b) == a.page < b.page \/ (a.page = b.page /\ a.y0 <= b.y0)

(* position at which e goes into the sorted sequence s: after every element *)
(* whose key is not greater (the sort is stable)                            *)
RECURSIVE InsertSorted(_, _)
InsertSorted(s, e) ==
  IF s = << >> THEN << e >>
  ELSE IF KeyLeq(Head(s), e) THEN << Head(s) >> \o InsertSorted(Tail(s), e)
  ELSE << e >> \o s

RECURSIVE SortFrom(_, _)
SortFrom(s, acc) ==
  IF s = << >> THEN acc ELSE SortFrom(Tail(s), InsertSorted(acc, Head(s)))

(* the sort left out: all_labels stays in block order *)
SortLabels_Unsorted(s) == s

(* all_labels.sort(key=lambda t: (t[0], t[1])) *)
SortLabels(s) == SortFrom(s, << >>)

(* a requested label found inside the line text instead of equal to it *)
IsTarget_Substring(text, norms) ==
  \E n \in norms : Contains(Normalize(text), n)

(* re.sub(r"[^A-Za-z0-9]", "", lab[3]).lower() in norm_labels *)
IsTarget(text, norms) == Normalize(text) \in norms

(* [lab for lab in all_labels if ... in norm_labels] *)
FilterTargets(labels, norms) ==
  LET Keep(lab) == IsTarget(lab.text, norms) IN SelectSeq(labels, Keep)

(* the empty check left out: the packing branch always runs *)
NoTargets_Never(t) == FALSE

(* if not target_labels *)
NoTargets(t) == t = << >>

(* the same-page test left out of the search for the next label *)
NextLabel_AnyPage(labels, page_num, label_y_top) ==
  LET hits == { i \in 1..Len(labels) : labels[i].y0 > label_y_top }
  IN IF hits = {} THEN None
     ELSE CHOOSE i \in hits : \A j \in hits : i <= j

(* index in labels of next((lab for lab in all_labels                      *)
(*        if lab[0] == page_num and lab[1] > label_y_top), None)           *)
NextLabel(labels, page_num, label_y_top) ==
  LET hits == { i \in 1..Len(labels) :
                  labels[i].page = page_num /\ labels[i].y0 > label_y_top }
  IN IF hits = {} THEN None
     ELSE CHOOSE i \in hits : \A j \in hits : i <= j

(* top_crop *)
TopCrop(prev, page_num, label_y_top) ==
  IF prev # page_num THEN Max(0, label_y_top - TopPad) ELSE label_y_top

(* bottom_crop *)
BottomCrop(labels, page_num, label_y_top, page_h) ==
  LET nxt == NextLabel(labels, page_num, label_y_top)
  IN IF nxt # None THEN labels[nxt].y0
     ELSE Min(page_h, label_y_top + FallbackHeight)

(* pix.height: the clip is cut to the page rectangle and scaled; an empty  *)
(* clip yields no pixel rows                                               *)
PixHeight(top, bottom, page_h) ==
  LET t == Max(top, 0)
      b == Min(bottom, page_h)
  IN IF bottom > top /\ b > t THEN zoom_factor * (b - t) ELSE 0

(* img_height_points = pix.height / zoom_factor *)
ImgHeightPoints(pixh) == pixh \div zoom_factor

(* the height of the crop left out of the page-break test *)
NeedNewPage_IgnoreHeight(op, yc, h, page_height) ==
  op = None \/ yc > page_height - bottom_margin

(* >= in place of > in the page-break test *)
NeedNewPage_Geq(op, yc, h, page_height) ==
  op = None \/ yc + h >= page_height - bottom_margin

(* the bottom margin left out of the page-break test *)
NeedNewPage_NoMargin(op, yc, h, page_height) ==
  op = None \/ yc + h > page_height

(* output_page is None or y_cursor + img_height_points > page_height - bottom_margin *)
NeedNewPage(op, yc, h, page_height) ==
  op = None \/ yc + h > page_height - bottom_margin

(* ---------------------------------------------------------------------- *)
(* Initial state: the script starts, nothing uploaded yet                   *)
(* ---------------------------------------------------------------------- *)
Init ==
  /\ pc = "start"
  /\ outcome = "none"
  /\ doc = << >>
  /\ doc_open = FALSE
  /\ labels_input = << >>
  /\ label_list = << >>
  /\ norm_labels = {}
  /\ page_index = 0
  /\ all_labels = << >>
  /\ target_labels = << >>
  /\ output_doc = FALSE
  /\ out_pages = << >>
  /\ output_page = None
  /\ y_cursor = 0
  /\ prev_page = None
  /\ idx = 0
  /\ clips = << >>
  /\ saved = FALSE

(* uploaded_file is None: the script body is skipped *)
NoUpload ==
  /\ pc = "start"
  /\ pc' = "done"
  /\ UNCHANGED << outcome, doc, doc_open, labels_input, label_list,
                  norm_labels, page_index, all_labels, target_labels,
                  output_doc, out_pages, output_page, y_cursor, prev_page,
                  idx, clips, saved >>

(* fitz.open raises: st.error, nothing else runs *)
OpenFails ==
  /\ pc = "start"
  /\ pc' = "done"
  /\ outcome' = "open_error"
  /\ UNCHANGED << doc, doc_open, labels_input, label_list, norm_labels,
                  page_index, all_labels, target_labels, output_doc,
                  out_pages, output_page, y_cursor, prev_page, idx, clips,
                  saved >>

(* fitz.open succeeds: doc is the sequence of the page heights *)
OpenOk ==
  /\ pc = "start"
  /\ \E d \in Docs : doc' = d
  /\ doc_open' = TRUE
  /\ pc' = "labels"
  /\ UNCHANGED << outcome, labels_input, label_list, norm_labels,
                  page_index, all_labels, target_labels, output_doc,
                  out_pages, output_page, y_cursor, prev_page, idx, clips,
                  saved >>

(* st.text_input returns "": the body of `if labels_input:` is skipped *)
LabelsEmpty ==
  /\ pc = "labels"
  /\ labels_input' = << >>
  /\ pc' = "done"
  /\ UNCHANGED << outcome, doc, doc_open, label_list, norm_labels,
                  page_index, all_labels, target_labels, output_doc,
                  out_pages, output_page, y_cursor, prev_page, idx, clips,
                  saved >>

(* a non-empty labels_input: label_list and norm_labels are computed *)
LabelsEntered ==
  /\ pc = "labels"
  /\ \E inp \in LabelInputs :
       /\ inp # << >>
       /\ labels_input' = inp
       /\ label_list' = ParseLabels(inp)
       /\ norm_labels' = NormLabels(ParseLabels(inp))
  /\ page_index' = 1
  /\ pc' = "scan"
  /\ UNCHANGED << outcome, doc, doc_open, all_labels, target_labels,
                  output_doc, out_pages, output_page, y_cursor, prev_page,
                  idx, clips, saved >>

(* one line of one text block of the current page *)
ScanLine ==
  /\ pc = "scan"
  /\ Len(all_labels) < MaxLines
  /\ \E x0 \in X0s, raw \in RawTexts :
       IF IsCandidate(x0, Strip(raw))
       THEN \E y0 \in Y0s, lh \in LineHeights :
              all_labels' =
                Append(all_labels,
                       [ page |-> page_index, y0 |-> y0, y1 |-> y0 + lh,
                         text |-> Strip(raw) ])
       ELSE all_labels' = all_labels
  /\ UNCHANGED << pc, outcome, doc, doc_open, labels_input, label_list,
                  norm_labels, page_index, target_labels, output_doc,
                  out_pages, output_page, y_cursor, prev_page, idx, clips,
                  saved >>

(* the page loop moves to the next page *)
NextPage ==
  /\ pc = "scan"
  /\ page_index < Len(doc)
  /\ page_index' = page_index + 1
  /\ UNCHANGED << pc, outcome, doc, doc_open, labels_input, label_list,
                  norm_labels, all_labels, target_labels, output_doc,
                  out_pages, output_page, y_cursor, prev_page, idx, clips,
                  saved >>

(* end of the page loop: sort, filter, and the branch on target_labels *)
FinishScan ==
  /\ pc = "scan"
  /\ page_index = Len(doc)
  /\ LET sorted == SortLabels(all_labels)
         targets == FilterTargets(sorted, norm_labels)
     IN /\ all_labels' = sorted
        /\ target_labels' = targets
        /\ IF NoTargets(targets)
           THEN /\ outcome' = "warning"
                /\ pc' = "done"
                /\ UNCHANGED << output_doc, y_cursor, output_page,
                                prev_page, idx >>
           ELSE /\ output_doc' = TRUE
                /\ y_cursor' = 0
                /\ output_page' = None
                /\ prev_page' = None
                /\ idx' = 1
                /\ pc' = "crop"
                /\ UNCHANGED outcome
  /\ UNCHANGED << doc, doc_open, labels_input, label_list, norm_labels,
                  page_index, out_pages, clips, saved >>

(* one iteration of the loop over target_labels *)
CropStep ==
  /\ pc = "crop"
  /\ idx <= Len(target_labels)
  /\ LET lab == target_labels[idx]
         page_h == doc[lab.page]
         page_height == doc[1]
         top_crop == TopCrop(prev_page, lab.page, lab.y0)
         bottom_crop == BottomCrop(all_labels, lab.page, lab.y0, page_h)
         pixh == PixHeight(top_crop, bottom_crop, page_h)
         h == ImgHeightPoints(pixh)
         fresh == NeedNewPage(output_page, y_cursor, h, page_height)
         cur == IF fresh THEN top_margin ELSE y_cursor
         placed == [ y0 |-> cur, y1 |-> cur + h, src |-> idx,
                     page |-> lab.page, label_y |-> lab.y0,
                     top |-> top_crop, bottom |-> bottom_crop ]
     IN /\ prev_page' = lab.page
        /\ clips' = Append(clips, [ page |-> lab.page, label_y |-> lab.y0,
                                    label_y1 |-> lab.y1,
                                    top |-> top_crop, bottom |-> bottom_crop ])
        /\ IF pixh = 0
           THEN (* an empty image cannot be inserted: the run stops here *)
                /\ outcome' = "exception"
                /\ pc' = "done"
                /\ UNCHANGED << out_pages, output_page, y_cursor, idx >>
           ELSE /\ out_pages' =
                     IF fresh THEN Append(out_pages, << placed >>)
                     ELSE [ out_pages EXCEPT ![output_page] = Append(@, placed) ]
                /\ output_page' = IF fresh THEN Len(out_pages) + 1 ELSE output_page
                /\ y_cursor' = cur + h + vertical_gap
                /\ idx' = idx + 1
                /\ UNCHANGED << pc, outcome >>
  /\ UNCHANGED << doc, doc_open, labels_input, label_list, norm_labels,
                  page_index, all_labels, target_labels, output_doc, saved >>

(* after the loop: output_doc.save, st.success, st.download_button *)
SaveOutput ==
  /\ pc = "crop"
  /\ idx > Len(target_labels)
  /\ saved' = TRUE
  /\ outcome' = "success"
  /\ pc' = "done"
  /\ UNCHANGED << doc, doc_open, labels_input, label_list, norm_labels,
                  page_index, all_labels, target_labels, output_doc,
                  out_pages, output_page, y_cursor, prev_page, idx, clips >>

Next ==
  \/ NoUpload
  \/ OpenFails
  \/ OpenOk
  \/ LabelsEmpty
  \/ LabelsEntered
  \/ ScanLine
  \/ NextPage
  \/ FinishScan
  \/ CropStep
  \/ SaveOutput

Spec == Init /\ [][Next]_vars

(* ---------------------------------------------------------------------- *)
(* Vocabulary of the properties                                             *)
(* ---------------------------------------------------------------------- *)
Terminal == pc = "done"

Opened == doc # << >>

(* output page height and its usable part *)
PageHeight == doc[1]

Usable == PageHeight - top_margin - bottom_margin

Height(pl) == pl.y1 - pl.y0

RECURSIVE SumHeights(_)
SumHeights(page) ==
  IF page = << >> THEN 0 ELSE Height(Head(page)) + SumHeights(Tail(page))

(* placed heights plus the gaps between them *)
PageSum(page) == SumHeights(page) + vertical_gap * (Len(page) - 1)

RECURSIVE Flatten(_)
Flatten(ps) == IF ps = << >> THEN << >> ELSE Head(ps) \o Flatten(Tail(ps))

(* the placements in order of output page, then cursor *)
Placed == Flatten(out_pages)

Oversize(pl) == Height(pl) > Usable

(* the label lines strictly below y on a source page *)
Below(page_num, y) ==
  { i \in 1..Len(all_labels) :
      all_labels[i].page = page_num /\ all_labels[i].y0 > y }

Requested(label) ==
  \E i \in 1..Len(label_list) : Normalize(label_list[i]) = Normalize(label)

LineMatches(lab) ==
  \E i \in 1..Len(label_list) : Normalize(label_list[i]) = Normalize(lab.text)

(* ---------------------------------------------------------------------- *)
(* C1: packing invariant                                                    *)
(* ---------------------------------------------------------------------- *)

(* C1 as stated: on every output page except the last, the placed heights *)
(* plus the gaps between them do not exceed pageHeight - topMargin -       *)
(* bottomMargin, whatever the crop heights.                                *)
C1_PackingAllHeights ==
  \A p \in 1..(Len(out_pages) - 1) : PageSum(out_pages[p]) <= Usable

(* C1 amended: on every output page except the last, the placed heights   *)
(* plus gaps do not exceed the usable height, unless the page holds a      *)
(* single crop that is itself taller than the usable height.               *)
C1_PackingUnlessOversize ==
  \A p \in 1..(Len(out_pages) - 1) :
     \/ PageSum(out_pages[p]) <= Usable
     \/ Len(out_pages[p]) = 1 /\ Oversize(out_pages[p][1])

C1_Witness ==
  /\ saved
  /\ \E p \in 1..(Len(out_pages) - 1) : Len(out_pages[p]) >= 2
  /\ \E p \in 1..(Len(out_pages) - 1) : PageSum(out_pages[p]) = Usable

(* ---------------------------------------------------------------------- *)
(* C2: page-break rule                                                      *)
(* ---------------------------------------------------------------------- *)

(* C2: a crop opens a new output page, at the top margin, exactly when     *)
(* there is no page yet or it does not fit above the bottom margin at the  *)
(* cursor; otherwise it sits one gap below the previous crop; the cursor   *)
(* is one gap below the last crop; and two adjacent crops whose combined   *)
(* height exceeds the usable height are never on the same output page.     *)
C2_PageBreakRule ==
  /\ \A p \in 1..Len(out_pages) : \A i \in 1..Len(out_pages[p]) :
       LET pl == out_pages[p][i]
       IN /\ i = 1 => pl.y0 = top_margin
          /\ i > 1 => /\ pl.y0 = out_pages[p][i - 1].y1 + vertical_gap
                      /\ pl.y1 <= PageHeight - bottom_margin
          /\ (i = 1 /\ p > 1) =>
               LET prev == out_pages[p - 1][Len(out_pages[p - 1])]
               IN prev.y1 + vertical_gap + Height(pl)
                    > PageHeight - bottom_margin
          /\ i < Len(out_pages[p]) =>
               Height(pl) + Height(out_pages[p][i + 1]) <= Usable
  /\ out_pages # << >> =>
       /\ output_page = Len(out_pages)
       /\ y_cursor = Placed[Len(Placed)].y1 + vertical_gap
  /\ \A p \in 1..Len(out_pages) : out_pages[p] # << >>

C2_Witness ==
  \E p \in 1..(Len(out_pages) - 1) :
     LET a == out_pages[p][Len(out_pages[p])]
         b == out_pages[p + 1][1]
     IN /\ Len(out_pages[p]) = 2
        /\ ~ Oversize(a)
        /\ ~ Oversize(b)
        /\ Height(a) + Height(b) > Usable

(* ---------------------------------------------------------------------- *)
(* C3: oversize crops                                                       *)
(* ---------------------------------------------------------------------- *)

(* C3: every crop handled so far is placed exactly once, in one piece of   *)
(* its full rendered height, and a crop taller than the usable height is   *)
(* the only crop on its output page.                                       *)
C3_OversizeAlone ==
  /\ \A p \in 1..Len(out_pages) : \A i \in 1..Len(out_pages[p]) :
       Oversize(out_pages[p][i]) => Len(out_pages[p]) = 1
  /\ pc = "crop" => Len(Placed) = idx - 1
  /\ \A k \in 1..Len(Placed) :
       /\ Placed[k].src = k
       /\ Height(Placed[k]) =
            Min(Placed[k].bottom, doc[Placed[k].page]) - Max(Placed[k].top, 0)

C3_Witness ==
  /\ saved
  /\ Len(out_pages) = 3
  /\ Oversize(out_pages[2][1])
  /\ ~ Oversize(out_pages[1][1])

(* ---------------------------------------------------------------------- *)
(* C4: ordering                                                             *)
(* ---------------------------------------------------------------------- *)

(* C4: read by output page and then by position on the page, the crops     *)
(* are in non-decreasing (source page, vertical position of the label      *)
(* line) order.                                                            *)
C4_SourceOrder ==
  /\ \A i, j \in 1..Len(Placed) :
       i < j =>
         \/ Placed[i].page < Placed[j].page
         \/ /\ Placed[i].page = Placed[j].page
            /\ Placed[i].label_y <= Placed[j].label_y
  /\ \A p \in 1..Len(out_pages) : \A i \in 1..(Len(out_pages[p]) - 1) :
       out_pages[p][i].y0 < out_pages[p][i + 1].y0

C4_Witness ==
  /\ saved
  /\ Len(Placed) = 3
  /\ Placed[1].page < Placed[2].page
  /\ Placed[2].page = Placed[3].page
  /\ Placed[2].label_y < Placed[3].label_y

(* ---------------------------------------------------------------------- *)
(* C5: region validity                                                      *)
(* ---------------------------------------------------------------------- *)

(* C5: every region handed to the renderer has bottom > top and lies       *)
(* within [0, height of its source page]; a candidate with bottom <= top   *)
(* is never rendered.                                                      *)
C5_RegionValid ==
  \A k \in 1..Len(clips) :
     /\ clips[k].bottom > clips[k].top
     /\ 0 <= clips[k].top
     /\ clips[k].bottom <= doc[clips[k].page]

(* ---------------------------------------------------------------------- *)
(* C6: label strictness                                                     *)
(* ---------------------------------------------------------------------- *)

(* C6: a line is a target only if its normalized text equals a normalized  *)
(* requested label; with "Bass I" requested and "Bass II" not, no target   *)
(* (and no placed crop) is a "Bass II" line, and the other way round.      *)
C6_LabelStrictness ==
  /\ \A i \in 1..Len(target_labels) : LineMatches(target_labels[i])
  /\ (Requested(BassI) /\ ~ Requested(BassII)) =>
       \A i \in 1..Len(target_labels) : target_labels[i].text # BassII
  /\ (Requested(BassII) /\ ~ Requested(BassI)) =>
       \A i \in 1..Len(target_labels) : target_labels[i].text # BassI

C6_Witness ==
  /\ saved
  /\ Requested(BassI)
  /\ ~ Requested(BassII)
  /\ \E i \in 1..Len(all_labels) : all_labels[i].text = BassII
  /\ Len(target_labels) < Len(all_labels)

(* ---------------------------------------------------------------------- *)
(* C7: empty label set                                                      *)
(* ---------------------------------------------------------------------- *)

(* C7: a run that ends with an empty set of requested labels reports a     *)
(* "no labels" input error, and creates no output document.                *)
C7_NoLabelsError ==
  (Terminal /\ Opened /\ ParseLabels(labels_input) = << >>) =>
     /\ outcome = "no_labels_error"
     /\ ~ output_doc
     /\ ~ saved

(* ---------------------------------------------------------------------- *)
(* C8: no-match outcome                                                     *)
(* ---------------------------------------------------------------------- *)

(* C8: a finished run with a non-empty label set and no matching line ends *)
(* in the warning outcome with no output document, no output page and      *)
(* nothing serialized; an output document exists only if some line         *)
(* matched, and it is serialized only after every target crop is placed.   *)
C8_NoMatchOutcome ==
  /\ (/\ Terminal
      /\ label_list # << >>
      /\ \A i \in 1..Len(all_labels) : ~ LineMatches(all_labels[i]))
       => outcome = "warning"
  /\ outcome = "warning" => (~ output_doc /\ out_pages = << >> /\ ~ saved)
  /\ output_doc => \E i \in 1..Len(all_labels) : LineMatches(all_labels[i])
  /\ out_pages # << >> => output_doc
  /\ saved => /\ output_doc
              /\ outcome = "success"
              /\ target_labels # << >>
              /\ Len(Placed) = Len(target_labels)

C8_Witness ==
  /\ Terminal
  /\ outcome = "warning"
  /\ label_list # << >>
  /\ all_labels # << >>

(* ---------------------------------------------------------------------- *)
(* C9: source handle release                                                *)
(* ---------------------------------------------------------------------- *)

(* C9: when a run in which the source document was opened has ended, the   *)
(* source document handle is closed.                                       *)
C9_HandleReleased ==
  (Terminal /\ Opened) => ~ doc_open

(* ---------------------------------------------------------------------- *)
(* C10: bottom boundary                                                     *)
(* ---------------------------------------------------------------------- *)

(* C10 as stated: the bottom of a region is the top of the next label line *)
(* below on the same page, or else the bottom edge of the matched label    *)
(* plus the fallback height.                                               *)
C10_BottomFromLabelBottom ==
  \A k \in 1..Len(clips) :
     LET c == clips[k]
         below == Below(c.page, c.label_y)
     IN IF below # {}
        THEN \E i \in below :
               /\ c.bottom = all_labels[i].y0
               /\ \A j \in below : all_labels[i].y0 <= all_labels[j].y0
        ELSE c.bottom = c.label_y1 + FallbackHeight

(* C10 amended: the bottom of a region is the top of the next label line   *)
(* below on the same page, or else the smaller of the source page height   *)
(* and the top edge of the matched label plus the fallback height; a       *)
(* single-page document with one matching line and no line below it gives  *)
(* exactly one region, with that fallback bottom.                          *)
C10_BottomFromLabelTop ==
  /\ \A k \in 1..Len(clips) :
       LET c == clips[k]
           below == Below(c.page, c.label_y)
       IN IF below # {}
          THEN \E i \in below :
                 /\ c.bottom = all_labels[i].y0
                 /\ \A j \in below : all_labels[i].y0 <= all_labels[j].y0
          ELSE c.bottom = Min(doc[c.page], c.label_y + FallbackHeight)
  /\ (/\ Terminal
      /\ Len(doc) = 1
      /\ Len(target_labels) = 1
      /\ Below(1, target_labels[1].y0) = {})
       => /\ Len(clips) = 1
          /\ clips[1].bottom =
               Min(doc[1], target_labels[1].y0 + FallbackHeight)

C10_Witness ==
  /\ saved
  /\ Len(doc) = 1
  /\ Len(all_labels) = 1
  /\ Len(clips) = 1
  /\ clips[1].bottom = clips[1].label_y + FallbackHeight
  /\ clips[1].bottom < doc[1]

====
